---------------------------- MODULE Spec2Model ----------------------------
(***************************************************************************)
(* apicompat: the recursive, path-labelled compatibility comparator        *)
(* (compat.go) over two jsontypes.Info type graphs (package jsontypes).    *)
(*                                                                         *)
(* A Go pointer to a jsontypes.Type is a node identifier (a string); the   *)
(* heap of Type values is the function Arena.  One Check invocation is     *)
(* unfolded into a call stack of check() activations; every step of the    *)
(* state machine is one piece of straight-line code of check().            *)
(***************************************************************************)
EXTENDS Integers, Sequences, FiniteSets, TLC

(***************************************************************************)
(* Bounds of the model.                                                    *)
(***************************************************************************)
\* Largest call-stack depth explored; the deepest recursion of the code on
\* the graphs below stays strictly under it (see DepthWithinBound).
MaxDepth == 9
\* Levels of the two definitions that SameType compares.
SameDepth == 4

(***************************************************************************)
(* jsontypes: Kind, Type, Field, Method.                                   *)
(***************************************************************************)
NIL == "nil"              \* the nil *Type
PANIC == "panic"          \* a run-time panic instead of a value

Unknown == "unknown"
Array == "array"
Chan == "chan"
Func == "func"
Interface == "interface"
Map == "map"
Ptr == "ptr"
Slice == "slice"
Struct == "struct"
IntK == "int"          \* jsontypes.Int (Int names the integers here)
String == "string"
Bool == "bool"

\* The characters struct tags are written with.
DQ == "\""
BS == "\\"
COLON == ":"
SP == " "

NoTag == <<>>
NoMethods == <<>>

Type(name, kind, methods, fields, elem, key, in, out, variadic) ==
    [Name |-> name, Kind |-> kind, Methods |-> methods, Fields |-> fields,
     Elem |-> elem, Key |-> key, In |-> in, Out |-> out, Variadic |-> variadic]

Field(name, type, tag) ==
    [Name |-> name, Type |-> type, Anonymous |-> FALSE, Tag |-> tag]

Method(name, ptrReceiver, type) ==
    name :> [PtrReceiver |-> ptrReceiver, Name |-> name, Type |-> type]

\* Info.Ref's reference to a named type: only the name is set.
StubT(name) == Type(name, "", NoMethods, <<>>, NIL, NIL, <<>>, <<>>, FALSE)
PrimT(name, kind, methods) ==
    Type(name, kind, methods, <<>>, NIL, NIL, <<>>, <<>>, FALSE)
ElemT(name, kind, elem, methods) ==
    Type(name, kind, methods, <<>>, elem, NIL, <<>>, <<>>, FALSE)
MapT(name, key, elem) ==
    Type(name, Map, NoMethods, <<>>, elem, key, <<>>, <<>>, FALSE)
FuncT(name, in, out, variadic) ==
    Type(name, Func, NoMethods, <<>>, NIL, NIL, in, out, variadic)
StructT(name, fields, methods) ==
    Type(name, Struct, methods, fields, NIL, NIL, <<>>, <<>>, FALSE)

(***************************************************************************)
(* allTags (compat.go): the struct-tag parser copied from reflect.         *)
(* A tag is a sequence of characters; Go's tag[i] is At(tag, i).           *)
(***************************************************************************)
At(tag, i) == tag[i + 1]
From(tag, i) == SubSeq(tag, i + 1, Len(tag))
Upto(tag, i) == SubSeq(tag, 1, i)

RECURSIVE SkipSpace(_, _)
SkipSpace(tag, i) ==
    IF i < Len(tag) /\ At(tag, i) = SP THEN SkipSpace(tag, i + 1) ELSE i

RECURSIVE ScanName(_, _)
ScanName(tag, i) ==
    IF i < Len(tag) /\ At(tag, i) # SP /\ At(tag, i) # COLON /\ At(tag, i) # DQ
    THEN ScanName(tag, i + 1)
    ELSE i

RECURSIVE ScanValue(_, _)
ScanValue(tag, i) ==
    IF i < Len(tag) /\ At(tag, i) # DQ
    THEN ScanValue(tag, IF At(tag, i) = BS THEN i + 2 ELSE i + 1)
    ELSE i

\* strconv.Unquote of a double-quoted literal over the tag alphabet: \" and \\
\* are the escapes the alphabet can spell; a backslash before any other
\* character of the alphabet is a syntax error.  Yields <<ok, value>>.
RECURSIVE UnquoteBody(_, _)
UnquoteBody(s, acc) ==
    IF s = <<>> THEN <<TRUE, acc>>
    ELSE IF s[1] = BS
         THEN IF Len(s) >= 2 /\ s[2] \in {DQ, BS}
              THEN UnquoteBody(SubSeq(s, 3, Len(s)), Append(acc, s[2]))
              ELSE <<FALSE, <<>>>>
         ELSE IF s[1] = DQ THEN <<FALSE, <<>>>>
         ELSE UnquoteBody(Tail(s), Append(acc, s[1]))

\* value, _ := strconv.Unquote(qvalue): the error is dropped, the value is ""
Unquote(qvalue) ==
    IF Len(qvalue) < 2 \/ qvalue[1] # DQ \/ qvalue[Len(qvalue)] # DQ
    THEN <<>>
    ELSE LET r == UnquoteBody(SubSeq(qvalue, 2, Len(qvalue) - 1), <<>>)
         IN  IF r[1] THEN r[2] ELSE <<>>

MapSet(all, name, value) ==
    [x \in DOMAIN all \cup {name} |-> IF x = name THEN value ELSE all[x]]

RECURSIVE allTagsLoop(_, _)
allTagsLoop(tag0, all) ==
    IF tag0 = <<>> THEN all
    ELSE LET tag1 == From(tag0, SkipSpace(tag0, 0)) IN
    IF tag1 = <<>> THEN all
    ELSE LET i == ScanName(tag1, 0) IN
    IF i + 1 >= Len(tag1) \/ At(tag1, i) # COLON \/ At(tag1, i + 1) # DQ THEN all
    ELSE LET name == Upto(tag1, i)
             tag2 == From(tag1, i + 1)
             j == ScanValue(tag2, 1)
         IN
    IF j >= Len(tag2) THEN all
    ELSE LET qvalue == Upto(tag2, j + 1)
             tag3 == From(tag2, j + 1)
         IN  allTagsLoop(tag3, MapSet(all, name, Unquote(qvalue)))

allTags(tag) == allTagsLoop(tag, <<>>)

\* Variant: the read misses every key.
MapGetMissing(tags, name) == <<>>

\* tags1[name]: a Go map read yields the zero value "" for an absent key.
MapGet(tags, name) == IF name \in DOMAIN tags THEN tags[name] ELSE <<>>

(***************************************************************************)
(* The type graphs compared.  Three versions of one package: "a" and "b"   *)
(* are well formed and differ by compatible and incompatible changes; "c"  *)
(* holds what a hand-written or damaged JSON file can hold (a nil Elem, a  *)
(* nil method type, references that resolve to nothing).  As both the      *)
(* extractor (Info.TypeInfo / Info.Ref) and encoding/json build them,      *)
(* every node has exactly one parent edge, a reference to a package-level  *)
(* named type is a fresh stub carrying only the name, and a predeclared    *)
(* type is a full node named after its kind.                               *)
(***************************************************************************)
Versions == {"a", "b", "c"}

Id(v, l) == v \o ":" \o l

TagKP == <<"k", COLON, DQ, "p", DQ>>                                  \* k:"p"
TagKQ == <<"k", COLON, DQ, "q", DQ>>                                  \* k:"q"
TagKE == <<"k", COLON, DQ, DQ>>                                       \* k:""
TagKPJQ == <<"k", COLON, DQ, "p", DQ, SP, "j", COLON, DQ, "q", DQ>>   \* k:"p" j:"q"
TagKQJQ == <<"k", COLON, DQ, "q", DQ, SP, "j", COLON, DQ, "q", DQ>>   \* k:"q" j:"q"
TagEsc == <<SP, "k", COLON, DQ, BS, DQ, DQ, SP, "j">>                 \*  k:"\"" j
TagBadEsc == <<"k", COLON, DQ, BS, "p", DQ>>                          \* k:"\p"
TagNoQuote == <<"k", COLON, "p">>                                     \* k:p

IntT == PrimT("int", IntK, NoMethods)
StringT == PrimT("string", String, NoMethods)
BoolT == PrimT("bool", Bool, NoMethods)

\* type Node struct { Next *Node `k:"p"`; Val int }
NodeTypes(v) ==
       Id(v, "Node") :> StructT("Node", <<Field("Next", Id(v, "Node.Next"), TagKP),
                                          Field("Val", Id(v, "Node.Val"), NoTag)>>, NoMethods)
    @@ Id(v, "Node.Next") :> ElemT("", Ptr, Id(v, "Node.Next.e"), NoMethods)
    @@ Id(v, "Node.Next.e") :> StubT("Node")
    @@ Id(v, "Node.Val") :> IntT

\* type Ping struct { Pong *Pong }; type Pong struct { Ping *Ping; N int }
\* (N becomes a string in "b")
PingPongTypes(v) ==
       Id(v, "Ping") :> StructT("Ping", <<Field("Pong", Id(v, "Ping.Pong"), NoTag)>>, NoMethods)
    @@ Id(v, "Ping.Pong") :> ElemT("", Ptr, Id(v, "Ping.Pong.e"), NoMethods)
    @@ Id(v, "Ping.Pong.e") :> StubT("Pong")
    @@ Id(v, "Pong") :> StructT("Pong", <<Field("Ping", Id(v, "Pong.Ping"), NoTag),
                                          Field("N", Id(v, "Pong.N"), NoTag)>>, NoMethods)
    @@ Id(v, "Pong.Ping") :> ElemT("", Ptr, Id(v, "Pong.Ping.e"), NoMethods)
    @@ Id(v, "Pong.Ping.e") :> StubT("Ping")
    @@ Id(v, "Pong.N") :> (IF v = "b" THEN StringT ELSE IntT)

\* type Any interface { Get() int }
\* type Time struct { Sec int }  with MarshalJSON() string   (Sec is gone in "b")
AnyTimeTypes(v) ==
       Id(v, "Any") :> PrimT("Any", Interface, Method("Get", FALSE, Id(v, "Any.Get")))
    @@ Id(v, "Any.Get") :> FuncT("", <<>>, <<Id(v, "Any.Get.o0")>>, FALSE)
    @@ Id(v, "Any.Get.o0") :> IntT
    @@ Id(v, "Time") :> StructT("Time",
                                IF v = "b" THEN <<>>
                                ELSE <<Field("Sec", Id(v, "Time.Sec"), NoTag)>>,
                                Method("MarshalJSON", FALSE, Id(v, "Time.MarshalJSON")))
    @@ Id(v, "Time.Sec") :> IntT
    @@ Id(v, "Time.MarshalJSON") :> FuncT("", <<>>, <<Id(v, "Time.MarshalJSON.o0")>>, FALSE)
    @@ Id(v, "Time.MarshalJSON.o0") :> StringT

\* "a": type Rec struct { Id int `k:"p" j:"q"`; Name string `k:"p" j:"q"`; Gone bool;
\*                        Kid Node `k:"p"`; When Time `k:p`; Esc string ` k:"\"" j`; Opt int `k:""` }
\* "b": type Rec struct { Name string; Id int `k:"q" j:"q"`; Extra int `k:"p"`;
\*                        Kid Any `k:"q"`; When Time `k:"q"`; Esc string `k:"\p"`; Opt int }
RecTypes(v) ==
       Id(v, "Rec") :> StructT("Rec",
            IF v = "b"
            THEN <<Field("Name", Id(v, "Rec.Name"), NoTag),
                   Field("Id", Id(v, "Rec.Id"), TagKQJQ),
                   Field("Extra", Id(v, "Rec.Extra"), TagKP),
                   Field("Kid", Id(v, "Rec.Kid"), TagKQ),
                   Field("When", Id(v, "Rec.When"), TagKQ),
                   Field("Esc", Id(v, "Rec.Esc"), TagBadEsc),
                   Field("Opt", Id(v, "Rec.Opt"), NoTag)>>
            ELSE <<Field("Id", Id(v, "Rec.Id"), TagKPJQ),
                   Field("Name", Id(v, "Rec.Name"), TagKPJQ),
                   Field("Gone", Id(v, "Rec.Gone"), NoTag),
                   Field("Kid", Id(v, "Rec.Kid"), TagKP),
                   Field("When", Id(v, "Rec.When"), TagNoQuote),
                   Field("Esc", Id(v, "Rec.Esc"), TagEsc),
                   Field("Opt", Id(v, "Rec.Opt"), TagKE)>>,
            NoMethods)
    @@ Id(v, "Rec.Id") :> IntT
    @@ Id(v, "Rec.Name") :> StringT
    @@ Id(v, "Rec.Gone") :> BoolT
    @@ Id(v, "Rec.Extra") :> IntT
    @@ Id(v, "Rec.Kid") :> (IF v = "b" THEN StubT("Any") ELSE StubT("Node"))
    @@ Id(v, "Rec.When") :> StubT("Time")
    @@ Id(v, "Rec.Esc") :> StringT
    @@ Id(v, "Rec.Opt") :> IntT

\* type Num int
\* "a": func (Num) Get() int; func (*Num) Set(int); func (Num) Drop()
\* "b": func (*Num) Get() int; func (Num) Set(int); func (Num) Add(int) int
NumTypes(v) ==
       Id(v, "Num") :> PrimT("Num", IntK,
            IF v = "b"
            THEN Method("Get", TRUE, Id(v, "Num.Get")) @@ Method("Set", FALSE, Id(v, "Num.Set"))
                 @@ Method("Add", FALSE, Id(v, "Num.Add"))
            ELSE Method("Get", FALSE, Id(v, "Num.Get")) @@ Method("Set", TRUE, Id(v, "Num.Set"))
                 @@ Method("Drop", FALSE, Id(v, "Num.Drop")))
    @@ Id(v, "Num.Get") :> FuncT("", <<>>, <<Id(v, "Num.Get.o0")>>, FALSE)
    @@ Id(v, "Num.Get.o0") :> IntT
    @@ Id(v, "Num.Set") :> FuncT("", <<Id(v, "Num.Set.i0")>>, <<>>, FALSE)
    @@ Id(v, "Num.Set.i0") :> IntT
    @@ Id(v, "Num.Drop") :> FuncT("", <<>>, <<>>, FALSE)
    @@ Id(v, "Num.Add") :> FuncT("", <<Id(v, "Num.Add.i0")>>, <<Id(v, "Num.Add.o0")>>, FALSE)
    @@ Id(v, "Num.Add.i0") :> IntT
    @@ Id(v, "Num.Add.o0") :> IntT

\* "a": type Fn func(int, string) bool;           type Fv func(int, []string)
\* "b": type Fn func(int, string, int) (bool, string); type Fv func(string, ...string)
FuncTypes(v) ==
       Id(v, "Fn") :> FuncT("Fn",
            IF v = "b" THEN <<Id(v, "Fn.i0"), Id(v, "Fn.i1"), Id(v, "Fn.i2")>>
                       ELSE <<Id(v, "Fn.i0"), Id(v, "Fn.i1")>>,
            IF v = "b" THEN <<Id(v, "Fn.o0"), Id(v, "Fn.o1")>> ELSE <<Id(v, "Fn.o0")>>,
            FALSE)
    @@ Id(v, "Fn.i0") :> IntT
    @@ Id(v, "Fn.i1") :> StringT
    @@ Id(v, "Fn.i2") :> IntT
    @@ Id(v, "Fn.o0") :> BoolT
    @@ Id(v, "Fn.o1") :> StringT
    @@ Id(v, "Fv") :> FuncT("Fv", <<Id(v, "Fv.i0"), Id(v, "Fv.i1")>>, <<>>, v = "b")
    @@ Id(v, "Fv.i0") :> (IF v = "b" THEN StringT ELSE IntT)
    @@ Id(v, "Fv.i1") :> ElemT("", Slice, Id(v, "Fv.i1.e"), NoMethods)
    @@ Id(v, "Fv.i1.e") :> StringT

\* "a": type Cont struct { M map[string]Num; C chan bool; L []int }
\* "b": type Cont struct { M map[int]Num;    C chan bool; L [4]int }
ContTypes(v) ==
       Id(v, "Cont") :> StructT("Cont", <<Field("M", Id(v, "Cont.M"), NoTag),
                                          Field("C", Id(v, "Cont.C"), NoTag),
                                          Field("L", Id(v, "Cont.L"), NoTag)>>, NoMethods)
    @@ Id(v, "Cont.M") :> MapT("", Id(v, "Cont.M.k"), Id(v, "Cont.M.e"))
    @@ Id(v, "Cont.M.k") :> (IF v = "b" THEN IntT ELSE StringT)
    @@ Id(v, "Cont.M.e") :> StubT("Num")
    @@ Id(v, "Cont.C") :> ElemT("", Chan, Id(v, "Cont.C.e"), NoMethods)
    @@ Id(v, "Cont.C.e") :> BoolT
    @@ Id(v, "Cont.L") :> ElemT("", IF v = "b" THEN Array ELSE Slice, Id(v, "Cont.L.e"), NoMethods)
    @@ Id(v, "Cont.L.e") :> IntT

\* type S struct { X int }; type R struct { X string }
\* "a": type T struct { A S; C R; B S }      "b": type T struct { A S; C R; B R }
\* type W bool with M1(S), M2(R) and, in "a", M3(S), in "b", M3(R)
SharedTypes(v) ==
       Id(v, "S") :> StructT("S", <<Field("X", Id(v, "S.X"), NoTag)>>, NoMethods)
    @@ Id(v, "S.X") :> IntT
    @@ Id(v, "R") :> StructT("R", <<Field("X", Id(v, "R.X"), NoTag)>>, NoMethods)
    @@ Id(v, "R.X") :> StringT
    @@ Id(v, "T") :> StructT("T", <<Field("A", Id(v, "T.A"), NoTag),
                                    Field("C", Id(v, "T.C"), NoTag),
                                    Field("B", Id(v, "T.B"), NoTag)>>, NoMethods)
    @@ Id(v, "T.A") :> StubT("S")
    @@ Id(v, "T.C") :> StubT("R")
    @@ Id(v, "T.B") :> (IF v = "b" THEN StubT("R") ELSE StubT("S"))
    @@ Id(v, "W") :> PrimT("W", Bool,
            Method("M1", FALSE, Id(v, "W.M1")) @@ Method("M2", FALSE, Id(v, "W.M2"))
            @@ Method("M3", FALSE, Id(v, "W.M3")))
    @@ Id(v, "W.M1") :> FuncT("", <<Id(v, "W.M1.i0")>>, <<>>, FALSE)
    @@ Id(v, "W.M1.i0") :> StubT("S")
    @@ Id(v, "W.M2") :> FuncT("", <<Id(v, "W.M2.i0")>>, <<>>, FALSE)
    @@ Id(v, "W.M2.i0") :> StubT("R")
    @@ Id(v, "W.M3") :> FuncT("", <<Id(v, "W.M3.i0")>>, <<>>, FALSE)
    @@ Id(v, "W.M3.i0") :> (IF v = "b" THEN StubT("R") ELSE StubT("S"))

\* type P *int; type D struct { F Node; G int }; type Mt int with M()
\* In "c": P has no Elem, D.F names a type that is not in the graph and has
\* Kind "unknown", Mt.M has no Type, and Loose.F is a kindless stub that names
\* a type that is not in the graph.
FragileTypes(v) ==
       Id(v, "P") :> ElemT("P", Ptr, IF v = "c" THEN NIL ELSE Id(v, "P.e"), NoMethods)
    @@ Id(v, "P.e") :> IntT
    @@ Id(v, "D") :> StructT("D", <<Field("G", Id(v, "D.G"), NoTag),
                                    Field("F", Id(v, "D.F"), NoTag)>>, NoMethods)
    @@ Id(v, "D.F") :> (IF v = "c"
                        THEN Type("Gone", Unknown, NoMethods, <<>>, NIL, NIL, <<>>, <<>>, FALSE)
                        ELSE StubT("Node"))
    @@ Id(v, "D.G") :> IntT
    @@ Id(v, "Mt") :> PrimT("Mt", IntK,
                            Method("M", FALSE, IF v = "c" THEN NIL ELSE Id(v, "Mt.M")))
    @@ Id(v, "Mt.M") :> FuncT("", <<>>, <<>>, FALSE)

LooseTypes(v) ==
       Id(v, "Loose") :> StructT("Loose", <<Field("F", Id(v, "Loose.F"), NoTag)>>, NoMethods)
    @@ Id(v, "Loose.F") :> StubT("Lost")

ArenaOf(v) ==
    IF v = "c"
    THEN NodeTypes(v) @@ FragileTypes(v) @@ LooseTypes(v)
    ELSE NodeTypes(v) @@ PingPongTypes(v) @@ AnyTimeTypes(v) @@ RecTypes(v) @@ NumTypes(v)
         @@ FuncTypes(v) @@ ContTypes(v) @@ SharedTypes(v) @@ FragileTypes(v)

\* The heap: every *Type the two graphs of a run can hold.
Arena == ArenaOf("a") @@ ArenaOf("b") @@ ArenaOf("c")

NodesOf(v) == DOMAIN ArenaOf(v)

\* Info.Types of version v: the package-level named types, by name.
TypeNames(v) ==
    IF v = "c" THEN {"Node", "P", "D", "Mt", "Loose"}
    ELSE {"Node", "Ping", "Pong", "Any", "Time", "Rec", "Num", "Fn", "Fv", "Cont",
          "S", "R", "T", "W", "P", "D", "Mt"}

Types(v) == [n \in TypeNames(v) |-> Id(v, n)]

Infos == [v \in Versions |-> [Types |-> Types(v), Nodes |-> NodesOf(v)]]

\* *t for a non-nil t
Node(t) == Arena[t]

(***************************************************************************)
(* jsontypes operations used by the comparator.                            *)
(***************************************************************************)
\* Info.Deref.  t.Name on a nil t is a nil-pointer dereference.
Deref(info, t) ==
    IF t = NIL THEN PANIC
    ELSE IF Node(t).Name \in DOMAIN Infos[info].Types THEN Infos[info].Types[Node(t).Name]
    ELSE IF Node(t).Kind = Unknown THEN PANIC
    ELSE t

\* Type.FieldByName: the index in fields of the first field called name, 0 for
\* Go's nil.
RECURSIVE FieldScan(_, _, _)
FieldScan(fields, name, i) ==
    IF i > Len(fields) THEN 0
    ELSE IF fields[i].Name = name THEN i
    ELSE FieldScan(fields, name, i + 1)

\* Variant: the scan starts one field too late.
FieldByNameFromSecond(t, name) == FieldScan(Node(t).Fields, name, 2)

FieldByName(t, name) == FieldScan(Node(t).Fields, name, 1)

(***************************************************************************)
(* The ignore predicates a caller passes to Check: one that never matches, *)
(* and cmd/apicompat's customMarshaler.                                    *)
(***************************************************************************)
marshalMethodNames == {"MarshalJSON", "UnmarshalJSON", "MarshalText", "UnmarshalText"}

customMarshaler(info, t) == \E name \in marshalMethodNames : name \in DOMAIN Node(t).Methods

IgnorePredicates == {"never", "customMarshaler"}

Ignores(pred, info, t) == pred = "customMarshaler" /\ customMarshaler(info, t)

(***************************************************************************)
(* State.                                                                  *)
(*   info0, info1, root0, root1, ignore : the arguments of Check           *)
(*   checked, errors                    : checkContext                     *)
(*   stack   : the activations of checkContext.check, innermost last       *)
(*   ret     : what Check has returned ("pending" until it does)           *)
(*   run, first : Check is called twice on the same arguments (run is 1,   *)
(*             then 2); first is the set of violations of the first call   *)
(*   calls   : history of the current run, one entry per call of check():  *)
(*             its arguments, its caller, what it resolved to and how it   *)
(*             ended.  Nothing in the transitions reads it.                *)
(***************************************************************************)
VARIABLES info0, info1, root0, root1, ignore, checked, errors, stack, ret, run, first, calls

vars == <<info0, info1, root0, root1, ignore, checked, errors, stack, ret, run, first, calls>>
args == <<info0, info1, root0, root1, ignore>>

Top == stack[Len(stack)]
Running == ret = "pending" /\ stack # <<>>
At_(pc) == Running /\ Top.pc = pc

Frame(fid, t0, t1, path) ==
    [fid |-> fid, t0 |-> t0, t1 |-> t1, path |-> path, pc |-> "enter", i |-> 0, todo |-> {}]

CallRec(t0, t1, path, parent, kind, name) ==
    [t0 |-> t0, t1 |-> t1, path |-> path, parent |-> parent,
     label |-> [kind |-> kind, name |-> name],
     outcome |-> "pending", r0 |-> NIL, r1 |-> NIL, done |-> FALSE]

\* ctxt.errorf: one more violation; fid (history) is the call that recorded it.
Errorf(errs, fid, path, msg, a) ==
    Append(errs, [path |-> path, msg |-> msg, args |-> a, fid |-> fid])

\* The violations as the caller sees them.
Violations(errs) == {[path |-> errs[k].path, msg |-> errs[k].msg, args |-> errs[k].args] :
                        k \in 1..Len(errs)}

\* The statement after a call of check(t0, t1, path) from the activation on
\* top, which continues as `cont` when the callee returns.
Call(cont, t0, t1, path, kind, name) ==
    /\ Len(stack) < MaxDepth
    /\ stack' = Append([stack EXCEPT ![Len(stack)] = cont],
                       Frame(Len(calls) + 1, t0, t1, path))
    /\ calls' = Append(calls, CallRec(t0, t1, path, Top.fid, kind, name))

\* return from the activation on top
Pop == SubSeq(stack, 1, Len(stack) - 1)

Ended(outcome, r0, r1, done) ==
    [calls EXCEPT ![Top.fid].outcome = outcome, ![Top.fid].r0 = r0,
                  ![Top.fid].r1 = r1, ![Top.fid].done = done]

Init ==
    /\ info0 \in Versions
    /\ info1 \in Versions
    /\ \/ /\ root0 \in {Infos[info0].Types[n] : n \in DOMAIN Infos[info0].Types}
          /\ root1 \in {Infos[info1].Types[n] : n \in DOMAIN Infos[info1].Types}
       \/ /\ info0 = info1
          /\ root0 \in Infos[info0].Nodes
          /\ root1 = root0
    /\ ignore \in IgnorePredicates
    /\ checked = {}
    /\ errors = <<>>
    /\ stack = <<Frame(1, root0, root1, "")>>
    /\ calls = <<CallRec(root0, root1, "", 0, "root", "")>>
    /\ ret = "pending"
    /\ run = 1
    /\ first = {}

(***************************************************************************)
(* checkContext.check, lines 70-86: the visited test, marking, Deref,      *)
(* ignore and the kind test run as one step when a call is entered.        *)
(* Deref never returns nil (it panics on a nil argument, and otherwise     *)
(* returns a map entry that is not nil, or its argument), so the           *)
(* "nil type found" branch of line 80 is never taken.                      *)
(***************************************************************************)
\* Variant: no visited test.
NeverChecked(chk, t0, t1) == FALSE

AlreadyChecked(chk, t0, t1) == t0 \in chk /\ t1 \in chk

\* Variant: no kind test.
KindsNeverDiffer(r0, r1) == FALSE

KindsDiffer(r0, r1) == Node(r0).Kind # Node(r1).Kind

\* Variant: method sets are compared for structs and interfaces only.
MethodNamesOfStructs(t) ==
    IF Node(t).Kind \in {Struct, Interface} THEN DOMAIN Node(t).Methods ELSE {}

\* range t0.Methods: the names the method loop visits (in any order)
MethodNames(t) == DOMAIN Node(t).Methods

\* the case of `switch t0.Kind` the activation goes to
SwitchPc(kind) ==
    IF kind \in {Array, Slice, Chan, Ptr} THEN "elem"
    ELSE IF kind = Map THEN "key"
    ELSE IF kind = Func THEN "in"
    ELSE IF kind = Struct THEN "fields"
    ELSE "methods"

Entering == At_("enter") /\ ~AlreadyChecked(checked, Top.t0, Top.t1)
DerefPanics == Deref(info0, Top.t0) = PANIC \/ Deref(info1, Top.t1) = PANIC
IsIgnored == \/ Ignores(ignore, info0, Deref(info0, Top.t0))
             \/ Ignores(ignore, info1, Deref(info1, Top.t1))

CheckSkip ==
    /\ At_("enter")
    /\ AlreadyChecked(checked, Top.t0, Top.t1)
    /\ stack' = Pop
    /\ calls' = Ended("skipped", NIL, NIL, TRUE)
    /\ UNCHANGED <<args, checked, errors, ret, run, first>>

CheckPanic ==
    /\ Entering
    /\ DerefPanics
    /\ checked' = checked \cup {Top.t0, Top.t1}
    /\ ret' = "panic"
    /\ calls' = Ended("panic", NIL, NIL, FALSE)
    /\ UNCHANGED <<args, errors, stack, run, first>>

CheckIgnored ==
    /\ Entering
    /\ ~DerefPanics
    /\ IsIgnored
    /\ checked' = checked \cup {Top.t0, Top.t1}
    /\ stack' = Pop
    /\ calls' = Ended("ignored", Deref(info0, Top.t0), Deref(info1, Top.t1), TRUE)
    /\ UNCHANGED <<args, errors, ret, run, first>>

CheckKindMismatch ==
    /\ Entering
    /\ ~DerefPanics
    /\ ~IsIgnored
    /\ LET r0 == Deref(info0, Top.t0)
           r1 == Deref(info1, Top.t1)
       IN  /\ KindsDiffer(r0, r1)
           /\ errors' = Errorf(errors, Top.fid, Top.path, "incompatible kinds %s vs %s",
                               <<Node(r0).Kind, Node(r1).Kind>>)
           /\ calls' = Ended("mismatch", r0, r1, TRUE)
    /\ checked' = checked \cup {Top.t0, Top.t1}
    /\ stack' = Pop
    /\ UNCHANGED <<args, ret, run, first>>

CheckCompare ==
    /\ Entering
    /\ ~DerefPanics
    /\ ~IsIgnored
    /\ LET r0 == Deref(info0, Top.t0)
           r1 == Deref(info1, Top.t1)
       IN  /\ ~KindsDiffer(r0, r1)
           /\ stack' = [stack EXCEPT ![Len(stack)] =
                          [Top EXCEPT !.t0 = r0, !.t1 = r1, !.pc = SwitchPc(Node(r0).Kind),
                                      !.todo = MethodNames(r0)]]
           /\ calls' = Ended("compared", r0, r1, FALSE)
    /\ checked' = checked \cup {Top.t0, Top.t1}
    /\ UNCHANGED <<args, errors, ret, run, first>>

(***************************************************************************)
(* Lines 88-96: Array, Slice, Chan, Ptr and Map.                           *)
(***************************************************************************)
ElemPath(kind, path) ==
    IF kind = Chan THEN "(<-" \o path \o ")"
    ELSE IF kind = Ptr THEN "(*" \o path \o ")"
    ELSE path \o "[]"

MapKey ==
    /\ At_("key")
    /\ Call([Top EXCEPT !.pc = "elem"], Node(Top.t0).Key, Node(Top.t1).Key,
            Top.path \o "[key]", "key", "")
    /\ UNCHANGED <<args, checked, errors, ret, run, first>>

ElemStep ==
    /\ At_("elem")
    /\ Call([Top EXCEPT !.pc = "methods"], Node(Top.t0).Elem, Node(Top.t1).Elem,
            ElemPath(Node(Top.t0).Kind, Top.path), "elem", "")
    /\ UNCHANGED <<args, checked, errors, ret, run, first>>

(***************************************************************************)
(* Lines 97-114: Func.  Top.i is the loop variable.                        *)
(***************************************************************************)
ParamPath(path, i) == path \o "(param " \o ToString(i) \o ")"

FuncInCount ==
    /\ At_("in")
    /\ Len(Node(Top.t0).In) # Len(Node(Top.t1).In)
    /\ errors' = Errorf(errors, Top.fid, Top.path, "differing parameter count %d vs %d",
                        <<ToString(Len(Node(Top.t0).In)), ToString(Len(Node(Top.t1).In))>>)
    /\ stack' = [stack EXCEPT ![Len(stack)] = [Top EXCEPT !.pc = "out", !.i = 0]]
    /\ UNCHANGED <<args, checked, ret, run, first, calls>>

FuncInParam ==
    /\ At_("in")
    /\ Len(Node(Top.t0).In) = Len(Node(Top.t1).In)
    /\ Top.i < Len(Node(Top.t0).In)
    /\ Call([Top EXCEPT !.i = Top.i + 1], Node(Top.t0).In[Top.i + 1], Node(Top.t1).In[Top.i + 1],
            ParamPath(Top.path, Top.i), "in", ToString(Top.i))
    /\ UNCHANGED <<args, checked, errors, ret, run, first>>

FuncInDone ==
    /\ At_("in")
    /\ Len(Node(Top.t0).In) = Len(Node(Top.t1).In)
    /\ Top.i = Len(Node(Top.t0).In)
    /\ errors' = IF Node(Top.t0).Variadic # Node(Top.t1).Variadic
                 THEN Errorf(errors, Top.fid, Top.path, "variadic status changed", <<>>)
                 ELSE errors
    /\ stack' = [stack EXCEPT ![Len(stack)] = [Top EXCEPT !.pc = "out", !.i = 0]]
    /\ UNCHANGED <<args, checked, ret, run, first, calls>>

FuncOutCount ==
    /\ At_("out")
    /\ Len(Node(Top.t0).Out) # Len(Node(Top.t1).Out)
    /\ errors' = Errorf(errors, Top.fid, Top.path, "differing out parameter count %d vs %d",
                        <<ToString(Len(Node(Top.t0).Out)), ToString(Len(Node(Top.t1).Out))>>)
    /\ stack' = [stack EXCEPT ![Len(stack)] = [Top EXCEPT !.pc = "methods", !.i = 0]]
    /\ UNCHANGED <<args, checked, ret, run, first, calls>>

FuncOutParam ==
    /\ At_("out")
    /\ Len(Node(Top.t0).Out) = Len(Node(Top.t1).Out)
    /\ Top.i < Len(Node(Top.t0).Out)
    /\ Call([Top EXCEPT !.i = Top.i + 1], Node(Top.t0).Out[Top.i + 1], Node(Top.t1).Out[Top.i + 1],
            ParamPath(Top.path, Top.i), "out", ToString(Top.i))
    /\ UNCHANGED <<args, checked, errors, ret, run, first>>

FuncOutDone ==
    /\ At_("out")
    /\ Len(Node(Top.t0).Out) = Len(Node(Top.t1).Out)
    /\ Top.i = Len(Node(Top.t0).Out)
    /\ stack' = [stack EXCEPT ![Len(stack)] = [Top EXCEPT !.pc = "methods", !.i = 0]]
    /\ UNCHANGED <<args, checked, errors, ret, run, first, calls>>

(***************************************************************************)
(* Lines 115-125: Struct, and checkTagCompat (lines 141-148).              *)
(***************************************************************************)
RECURSIVE Join(_)
Join(chars) == IF chars = <<>> THEN "" ELSE chars[1] \o Join(Tail(chars))

\* allTags, tabulated once over the tags that occur in the graphs.
TagsInUse ==
    UNION {{Arena[t].Fields[i].Tag : i \in DOMAIN Arena[t].Fields} : t \in DOMAIN Arena}
ParsedTags == [tag \in TagsInUse |-> allTags(tag)]

\* Variant: only keys that both tags define are compared.
TagMismatchesInBoth(tag0, tag1) ==
    {name \in DOMAIN ParsedTags[tag0] \cap DOMAIN ParsedTags[tag1] :
        ParsedTags[tag1][name] # ParsedTags[tag0][name]}

\* the keys of tag0 for which checkTagCompat records a violation
TagMismatches(tag0, tag1) ==
    {name \in DOMAIN ParsedTags[tag0] : MapGet(ParsedTags[tag1], name) # ParsedTags[tag0][name]}

TagError(fid, path, tag0, tag1, name) ==
    [path |-> path, msg |-> "incompatible tag %s:%q vs %s:%q",
     args |-> <<Join(name), Join(ParsedTags[tag0][name]), Join(name),
                Join(MapGet(ParsedTags[tag1], name))>>,
     fid |-> fid]

\* every order in which `range tags0` can visit the keys in `names`
Orders(names) ==
    {o \in [1..Cardinality(names) -> names] : \A x, y \in DOMAIN o : o[x] = o[y] => x = y}

FieldPath(path, name) == path \o "." \o name

CurField == Node(Top.t0).Fields[Top.i + 1]

FieldMissing ==
    /\ At_("fields")
    /\ Top.i < Len(Node(Top.t0).Fields)
    /\ FieldByName(Top.t1, CurField.Name) = 0
    /\ errors' = Errorf(errors, Top.fid, FieldPath(Top.path, CurField.Name),
                        "field is missing", <<>>)
    /\ stack' = [stack EXCEPT ![Len(stack)] = [Top EXCEPT !.i = Top.i + 1]]
    /\ UNCHANGED <<args, checked, ret, run, first, calls>>

FieldCompare ==
    /\ At_("fields")
    /\ Top.i < Len(Node(Top.t0).Fields)
    /\ FieldByName(Top.t1, CurField.Name) # 0
    /\ Call([Top EXCEPT !.pc = "tag"], CurField.Type,
            Node(Top.t1).Fields[FieldByName(Top.t1, CurField.Name)].Type,
            FieldPath(Top.path, CurField.Name), "field", CurField.Name)
    /\ UNCHANGED <<args, checked, errors, ret, run, first>>

FieldTag ==
    /\ At_("tag")
    /\ LET f0 == CurField
           f1 == Node(Top.t1).Fields[FieldByName(Top.t1, f0.Name)]
           path == FieldPath(Top.path, f0.Name)
       IN  \E o \in Orders(TagMismatches(f0.Tag, f1.Tag)) :
              errors' = errors \o [k \in DOMAIN o |->
                                     TagError(Top.fid, path, f0.Tag, f1.Tag, o[k])]
    /\ stack' = [stack EXCEPT ![Len(stack)] = [Top EXCEPT !.pc = "fields", !.i = Top.i + 1]]
    /\ UNCHANGED <<args, checked, ret, run, first, calls>>

FieldsDone ==
    /\ At_("fields")
    /\ Top.i = Len(Node(Top.t0).Fields)
    /\ stack' = [stack EXCEPT ![Len(stack)] = [Top EXCEPT !.pc = "methods", !.i = 0]]
    /\ UNCHANGED <<args, checked, errors, ret, run, first, calls>>

(***************************************************************************)
(* Lines 128-139: the method sets.  Top.todo is what `range t0.Methods`    *)
(* has yet to visit; Go fixes no order.                                    *)
(***************************************************************************)
\* Variant: any change of receiver is a violation.
ReceiverChanged(m0, m1) == m0.PtrReceiver # m1.PtrReceiver

ReceiverNarrowed(m0, m1) == ~m0.PtrReceiver /\ m1.PtrReceiver

MethodMissing ==
    /\ At_("methods")
    /\ \E name \in Top.todo :
          /\ name \notin DOMAIN Node(Top.t1).Methods
          /\ errors' = Errorf(errors, Top.fid, Top.path, "method %s is missing", <<name>>)
          /\ stack' = [stack EXCEPT ![Len(stack)] = [Top EXCEPT !.todo = Top.todo \ {name}]]
    /\ UNCHANGED <<args, checked, ret, run, first, calls>>

MethodCompare ==
    /\ At_("methods")
    /\ \E name \in Top.todo :
          /\ name \in DOMAIN Node(Top.t1).Methods
          /\ LET m0 == Node(Top.t0).Methods[name]
                 m1 == Node(Top.t1).Methods[name]
             IN  /\ errors' = IF ReceiverNarrowed(m0, m1)
                              THEN Errorf(errors, Top.fid, Top.path,
                                          "method %s has changed from value to pointer receiver",
                                          <<name>>)
                              ELSE errors
                 /\ Call([Top EXCEPT !.todo = Top.todo \ {name}], m0.Type, m1.Type,
                         FieldPath(Top.path, name), "method", name)
    /\ UNCHANGED <<args, checked, ret, run, first>>

MethodsDone ==
    /\ At_("methods")
    /\ Top.todo = {}
    /\ stack' = Pop
    /\ calls' = [calls EXCEPT ![Top.fid].done = TRUE]
    /\ UNCHANGED <<args, checked, errors, ret, run, first>>

(***************************************************************************)
(* Check, lines 56-62: the outermost check() has returned.                 *)
(***************************************************************************)
Return ==
    /\ ret = "pending"
    /\ stack = <<>>
    /\ ret' = IF Len(errors) > 0 THEN "CheckError" ELSE "nil"
    /\ UNCHANGED <<args, checked, errors, stack, run, first, calls>>

\* The caller calls Check again with the same arguments: a fresh checkContext.
Again ==
    /\ ret \in {"nil", "CheckError"}
    /\ run = 1
    /\ run' = 2
    /\ first' = Violations(errors)
    /\ checked' = {}
    /\ errors' = <<>>
    /\ stack' = <<Frame(1, root0, root1, "")>>
    /\ calls' = <<CallRec(root0, root1, "", 0, "root", "")>>
    /\ ret' = "pending"
    /\ UNCHANGED args

Next ==
    \/ CheckSkip \/ CheckPanic \/ CheckIgnored \/ CheckKindMismatch \/ CheckCompare
    \/ MapKey \/ ElemStep
    \/ FuncInCount \/ FuncInParam \/ FuncInDone
    \/ FuncOutCount \/ FuncOutParam \/ FuncOutDone
    \/ FieldMissing \/ FieldCompare \/ FieldTag \/ FieldsDone
    \/ MethodMissing \/ MethodCompare \/ MethodsDone
    \/ Return \/ Again

Spec == Init /\ [][Next]_vars

\* Check is straight-line, single-threaded code: a step that can be taken is taken.
FairSpec == Spec /\ WF_vars(Next)

\* The recursion of the code never reaches the depth at which the model stops.
DepthWithinBound == Len(stack) < MaxDepth

(***************************************************************************)
(* Vocabulary of the properties.                                           *)
(***************************************************************************)
Returned == ret \in {"nil", "CheckError"}

\* A node of version v with nothing absent and nothing unresolvable.
WellFormedNode(v, t) ==
    LET n == ArenaOf(v)[t] IN
    /\ n.Kind \in {"", Unknown} => n.Name \in TypeNames(v)
    /\ n.Kind \in {Array, Slice, Chan, Ptr, Map} => n.Elem # NIL
    /\ n.Kind = Map => n.Key # NIL
    /\ \A i \in DOMAIN n.In : n.In[i] # NIL
    /\ \A i \in DOMAIN n.Out : n.Out[i] # NIL
    /\ \A i \in DOMAIN n.Fields : n.Fields[i].Type # NIL
    /\ \A m \in DOMAIN n.Methods : n.Methods[m].Type # NIL

WellFormedVersions == {v \in Versions : \A t \in NodesOf(v) : WellFormedNode(v, t)}

WellFormedInputs == info0 \in WellFormedVersions /\ info1 \in WellFormedVersions

\* Call f resolved both sides, was not ignored and found equal kinds.
Compared(f) == calls[f].outcome = "compared"
\* ... and has returned.
Finished(f) == Compared(f) /\ calls[f].done

ErrorsAt(f, msg) == {k \in DOMAIN errors : errors[k].fid = f /\ errors[k].msg = msg}

FieldNames(t) == {Node(t).Fields[i].Name : i \in DOMAIN Node(t).Fields}

\* Call g was made (directly or not) by call c, or is c.
RECURSIVE Within(_, _)
Within(g, c) ==
    IF g = c THEN TRUE
    ELSE IF g < c \/ g = 0 THEN FALSE
    ELSE Within(calls[g].parent, c)

\* The two types are the same definition, node for node, down to `fuel` levels:
\* names, kinds, variadic flags, field names and tags, method names and
\* receivers, and recursively every type they refer to.
RECURSIVE SameType(_, _, _)
SameType(t0, t1, fuel) ==
    IF t0 = NIL \/ t1 = NIL THEN t0 = t1
    ELSE IF Deref(info0, t0) = PANIC \/ Deref(info1, t1) = PANIC THEN FALSE
    ELSE LET n0 == Node(Deref(info0, t0))
             n1 == Node(Deref(info1, t1))
         IN  /\ Node(t0).Name = Node(t1).Name
             /\ n0.Kind = n1.Kind
             /\ n0.Variadic = n1.Variadic
             /\ Len(n0.In) = Len(n1.In)
             /\ Len(n0.Out) = Len(n1.Out)
             /\ Len(n0.Fields) = Len(n1.Fields)
             /\ DOMAIN n0.Methods = DOMAIN n1.Methods
             /\ \A i \in DOMAIN n0.Fields : /\ n0.Fields[i].Name = n1.Fields[i].Name
                                            /\ n0.Fields[i].Tag = n1.Fields[i].Tag
             /\ \A m \in DOMAIN n0.Methods :
                    n0.Methods[m].PtrReceiver = n1.Methods[m].PtrReceiver
             /\ fuel > 0 =>
                  /\ SameType(n0.Elem, n1.Elem, fuel - 1)
                  /\ SameType(n0.Key, n1.Key, fuel - 1)
                  /\ \A i \in DOMAIN n0.In : SameType(n0.In[i], n1.In[i], fuel - 1)
                  /\ \A i \in DOMAIN n0.Out : SameType(n0.Out[i], n1.Out[i], fuel - 1)
                  /\ \A i \in DOMAIN n0.Fields :
                         SameType(n0.Fields[i].Type, n1.Fields[i].Type, fuel - 1)
                  /\ \A m \in DOMAIN n0.Methods :
                         SameType(n0.Methods[m].Type, n1.Methods[m].Type, fuel - 1)

(***************************************************************************)
(* Properties.                                                             *)
(***************************************************************************)

\* C1: comparing a type of a well-formed graph with itself (same graph, same
\* node, an ignore predicate that never matches) records no violation, never
\* panics, and Check returns nil.
C1_SelfCompatible ==
    (info0 = info1 /\ root0 = root1 /\ ignore = "never" /\ info0 \in WellFormedVersions)
        => (errors = <<>> /\ ret \in {"pending", "nil"})

C1_Witness ==
    /\ info0 = info1 /\ root0 = root1 /\ ignore = "never" /\ info0 \in WellFormedVersions
    /\ root0 = Id(info0, "Rec")
    /\ ret = "nil"
    /\ \E f \in DOMAIN calls : calls[f].outcome = "skipped"

SelfReferentialRoots ==
    /\ Node(root0).Name = "Node" /\ Node(root0).Kind = Struct
    /\ Node(root1).Name = "Node" /\ Node(root1).Kind = Struct

\* C2: on well-formed graphs every Check call returns (also on the
\* self-referential Node and the mutually referential Ping and Pong), and the
\* self-referential struct Node compared with an identical definition of Node
\* returns nil with no violations.
C2_Terminates ==
    /\ WellFormedInputs ~> Returned
    /\ [](SelfReferentialRoots /\ ret # "pending" => ret = "nil" /\ errors = <<>>)

C2_Witness ==
    /\ SelfReferentialRoots
    /\ info0 # info1
    /\ ret = "nil"
    /\ \E f \in DOMAIN calls : calls[f].outcome = "skipped" /\ calls[f].r0 = NIL

\* C3: a finished comparison of two structs has recorded "field is missing"
\* exactly once for every field name of the old struct that the new struct
\* lacks, and for nothing else (so not for fields only the new struct has).
C3_MissingFields ==
    \A f \in DOMAIN calls :
        (Finished(f) /\ Node(calls[f].r0).Kind = Struct) =>
            LET gone == FieldNames(calls[f].r0) \ FieldNames(calls[f].r1)
                rec == ErrorsAt(f, "field is missing")
            IN  /\ \A n \in gone :
                      Cardinality({k \in rec : errors[k].path = calls[f].path \o "." \o n}) = 1
                /\ \A k \in rec : \E n \in gone : errors[k].path = calls[f].path \o "." \o n

C3_Witness ==
    \E f \in DOMAIN calls :
        /\ Finished(f) /\ Node(calls[f].r0).Kind = Struct
        /\ FieldNames(calls[f].r0) \ FieldNames(calls[f].r1) # {}
        /\ FieldNames(calls[f].r0) \cap FieldNames(calls[f].r1) # {}
        /\ FieldNames(calls[f].r1) \ FieldNames(calls[f].r0) # {}
        /\ ErrorsAt(f, "field is missing") # {}

\* C4: a finished comparison of two types of equal kind, of any kind, has
\* recorded "method is missing" exactly once for every method name of the old
\* type that the new type lacks, and for no other name.
C4_MissingMethods ==
    \A f \in DOMAIN calls :
        Finished(f) =>
            LET gone == DOMAIN Node(calls[f].r0).Methods \ DOMAIN Node(calls[f].r1).Methods
                rec == ErrorsAt(f, "method %s is missing")
            IN  /\ \A n \in gone : Cardinality({k \in rec : errors[k].args = <<n>>}) = 1
                /\ \A k \in rec : \E n \in gone : errors[k].args = <<n>>
                /\ \A k \in rec : errors[k].path = calls[f].path

C4_Witness ==
    \E f \in DOMAIN calls :
        /\ Finished(f)
        /\ Node(calls[f].r0).Kind \notin {Struct, Interface}
        /\ DOMAIN Node(calls[f].r0).Methods \ DOMAIN Node(calls[f].r1).Methods # {}
        /\ DOMAIN Node(calls[f].r1).Methods \ DOMAIN Node(calls[f].r0).Methods # {}
        /\ ErrorsAt(f, "method %s is missing") # {}

\* the violations recorded by the comparison of method n's type made by call f
MethodSubtreeErrors(f, n) ==
    {k \in DOMAIN errors :
        \E c \in DOMAIN calls :
            /\ calls[c].parent = f
            /\ calls[c].label = [kind |-> "method", name |-> n]
            /\ Within(errors[k].fid, c)}

\* C5: for a method on both types with identical function types, a finished
\* comparison has recorded exactly one violation about it, the receiver
\* violation, when the receiver went from value to pointer, and none at all in
\* the three other cases.
C5_ReceiverNarrowing ==
    \A f \in DOMAIN calls :
        Finished(f) =>
            \A n \in DOMAIN Node(calls[f].r0).Methods \cap DOMAIN Node(calls[f].r1).Methods :
                LET m0 == Node(calls[f].r0).Methods[n]
                    m1 == Node(calls[f].r1).Methods[n]
                    about == {k \in DOMAIN errors : errors[k].fid = f /\ errors[k].args = <<n>>}
                             \cup MethodSubtreeErrors(f, n)
                IN  SameType(m0.Type, m1.Type, SameDepth) =>
                        IF ~m0.PtrReceiver /\ m1.PtrReceiver
                        THEN /\ Cardinality(about) = 1
                             /\ \A k \in about :
                                   /\ errors[k].msg =
                                        "method %s has changed from value to pointer receiver"
                                   /\ errors[k].path = calls[f].path
                        ELSE about = {}

C5_Witness ==
    \E f \in DOMAIN calls :
        /\ Finished(f)
        /\ \E n, m \in DOMAIN Node(calls[f].r0).Methods \cap DOMAIN Node(calls[f].r1).Methods :
              /\ ~Node(calls[f].r0).Methods[n].PtrReceiver
              /\ Node(calls[f].r1).Methods[n].PtrReceiver
              /\ Node(calls[f].r0).Methods[m].PtrReceiver
              /\ ~Node(calls[f].r1).Methods[m].PtrReceiver
              /\ SameType(Node(calls[f].r0).Methods[n].Type,
                          Node(calls[f].r1).Methods[n].Type, SameDepth)
              /\ SameType(Node(calls[f].r0).Methods[m].Type,
                          Node(calls[f].r1).Methods[m].Type, SameDepth)
              /\ Len(Node(Node(calls[f].r0).Methods[m].Type).In) > 0
        /\ ErrorsAt(f, "method %s has changed from value to pointer receiver") # {}

\* the keys for which call f recorded a tag violation at field `name`
TagKeysRecorded(f, name) ==
    {errors[k].args[1] : k \in {j \in ErrorsAt(f, "incompatible tag %s:%q vs %s:%q") :
                                  errors[j].path = calls[f].path \o "." \o name}}

\* the fields of the old struct of call f that the new struct has too, as
\* <<old field, new field>>
CommonFields(f) ==
    {<<Node(calls[f].r0).Fields[i], Node(calls[f].r1).Fields[j]>> :
        <<i, j>> \in {p \in (DOMAIN Node(calls[f].r0).Fields) \X (DOMAIN Node(calls[f].r1).Fields) :
                        Node(calls[f].r0).Fields[p[1]].Name = Node(calls[f].r1).Fields[p[2]].Name}}

\* C6 as claimed: tag violations are recorded only for keys defined in both
\* the old and the new tag with different values (a key of the old tag that is
\* absent from the new tag yields none).
C6_OnlyKeysInBoth ==
    \A f \in DOMAIN calls :
        (Compared(f) /\ Node(calls[f].r0).Kind = Struct) =>
            \A p \in CommonFields(f) :
                \A key \in TagKeysRecorded(f, p[1].Name) :
                    \E name \in DOMAIN allTags(p[1].Tag) \cap DOMAIN allTags(p[2].Tag) :
                        /\ Join(name) = key
                        /\ allTags(p[1].Tag)[name] # allTags(p[2].Tag)[name]

\* C6 as amended: a finished comparison of two structs has recorded, for every
\* field in both, one tag violation for exactly those keys of the old tag
\* whose value differs from the new tag's value, where a key absent from the
\* new tag counts as the empty value; so a key dropped from the new tag is a
\* violation unless its old value was empty, and a key only in the new tag
\* is none.
C6_AbsentReadsAsEmpty ==
    \A f \in DOMAIN calls :
        (Finished(f) /\ Node(calls[f].r0).Kind = Struct) =>
            \A p \in CommonFields(f) :
                LET tags0 == allTags(p[1].Tag)
                    tags1 == allTags(p[2].Tag)
                    differ == {name \in DOMAIN tags0 :
                                 IF name \in DOMAIN tags1 THEN tags1[name] # tags0[name]
                                 ELSE tags0[name] # <<>>}
                    rec == {k \in ErrorsAt(f, "incompatible tag %s:%q vs %s:%q") :
                              errors[k].path = calls[f].path \o "." \o p[1].Name}
                IN  /\ TagKeysRecorded(f, p[1].Name) = {Join(name) : name \in differ}
                    /\ Cardinality(rec) = Cardinality(differ)

C6_Witness ==
    \E f \in DOMAIN calls :
        /\ Finished(f) /\ Node(calls[f].r0).Kind = Struct
        /\ \E p \in CommonFields(f) :
              \E name \in DOMAIN allTags(p[1].Tag) \ DOMAIN allTags(p[2].Tag) :
                  Join(name) \in TagKeysRecorded(f, p[1].Name)
        /\ \E p \in CommonFields(f) :
              \E name \in DOMAIN allTags(p[1].Tag) \ DOMAIN allTags(p[2].Tag) :
                  Join(name) \notin TagKeysRecorded(f, p[1].Name)
        /\ \E p \in CommonFields(f) :
              DOMAIN allTags(p[2].Tag) \ DOMAIN allTags(p[1].Tag) # {}

\* C7: a call whose resolved, non-ignored types have different kinds has
\* recorded exactly one violation, "incompatible kinds" at its path, and has
\* made no call of check (nothing below the pair is compared, neither
\* elements, fields, tags nor methods).
C7_KindMismatchPrunes ==
    \A f \in DOMAIN calls :
        (/\ calls[f].outcome \in {"mismatch", "compared"}
         /\ Node(calls[f].r0).Kind # Node(calls[f].r1).Kind) =>
            /\ Cardinality({k \in DOMAIN errors : errors[k].fid = f}) = 1
            /\ \A k \in DOMAIN errors :
                  errors[k].fid = f => /\ errors[k].msg = "incompatible kinds %s vs %s"
                                       /\ errors[k].path = calls[f].path
            /\ \A c \in DOMAIN calls : calls[c].parent # f

C7_Witness ==
    /\ Returned
    /\ \E f \in DOMAIN calls :
          /\ calls[f].outcome = "mismatch"
          /\ calls[f].parent # 0
          /\ Node(calls[f].r0).Kind = Struct /\ Node(calls[f].r1).Kind = Interface
          /\ Node(calls[f].r0).Fields # <<>>
          /\ Node(calls[f].r1).Methods # <<>>

\* Call f was skipped by the visited test although the pair (t0, t1) was
\* never entered before it.
SkippedUnseen(f) ==
    /\ calls[f].outcome = "skipped"
    /\ ~\E g \in 1..(f - 1) : /\ calls[g].t0 = calls[f].t0
                              /\ calls[g].t1 = calls[f].t1
                              /\ calls[g].outcome # "skipped"

\* C8: skipping never loses a violation.  Up to the first skip of a pair that
\* was never entered, Check and a comparator that skips only pairs already
\* entered run alike; there the latter enters the pair and, if the resolved
\* kinds differ, records "incompatible kinds" at that path.  So if the two
\* return the same violations, Check has returned that violation too.
C8_SkipLosesNothing ==
    Returned =>
        \A f \in DOMAIN calls :
            (/\ SkippedUnseen(f)
             /\ \A g \in 1..(f - 1) : ~SkippedUnseen(g)
             /\ calls[f].t0 # NIL /\ calls[f].t1 # NIL
             /\ Deref(info0, calls[f].t0) # PANIC /\ Deref(info1, calls[f].t1) # PANIC
             /\ ignore = "never"
             /\ Node(Deref(info0, calls[f].t0)).Kind # Node(Deref(info1, calls[f].t1)).Kind) =>
                [path |-> calls[f].path, msg |-> "incompatible kinds %s vs %s",
                 args |-> <<Node(Deref(info0, calls[f].t0)).Kind,
                            Node(Deref(info1, calls[f].t1)).Kind>>] \in Violations(errors)

\* C9: a call of check with a nil type on either side records "nil type
\* found" at its path, and the check goes on (no panic).
C9_NilTypeRecorded ==
    \A f \in DOMAIN calls :
        (/\ (calls[f].t0 = NIL \/ calls[f].t1 = NIL)
         /\ calls[f].outcome \notin {"pending", "skipped"}) =>
            /\ ret # "panic"
            /\ \E k \in ErrorsAt(f, "nil type found") : errors[k].path = calls[f].path

\* C10: Check is a function of its arguments: the second call on the same
\* arguments returns the same set of violations as the first, whatever the
\* orders in which the two calls range over the Methods maps.
C10_SameViolations ==
    (run = 2 /\ Returned) => Violations(errors) = first

=============================================================================
